---------------------------- MODULE Spec2Model ----------------------------
(***************************************************************************)
(* Model of serial-modbus.c: the character-device lifecycle                *)
(* (modbus_dev_init / modbus_dev_exit) and the per-open-instance handlers  *)
(* (modbus_dev_open / close / ioctl / read / write).                       *)
(*                                                                         *)
(* The kernel objects the driver acquires are modelled by their true state *)
(* (chrdevs, cdev_map, class_reg, dev_node); the driver's static variables *)
(* (my_dev, modbusClass, modbusDevice, firstAssignedDevNum) are the        *)
(* handles it keeps to them.  Every kernel call the driver makes is one    *)
(* step, so that the states between two calls are visible.                 *)
(***************************************************************************)
EXTENDS Integers, FiniteSets, Sequences, TLC

\* ----------------------------------------------------------------- bounds
MaxMajors == 2      \* dynamic major numbers the kernel can hand out
MaxLoads  == 2      \* module loads (insmod) in one behaviour
MaxExits  == 2      \* invocations of modbus_dev_exit per load (harness only)
MaxFiles  == 2      \* struct file objects the host can have at a time
MaxAddrs  == 2      \* heap blocks kzalloc can hand out

\* ------------------------------------------------------ program constants
NULL   == 0         \* the null pointer
ENOMEM == 12        \* errno returned as -ENOMEM
EPERM  == 1         \* "return -1" of a failed cdev_alloc

Majors == 1 .. MaxMajors
Files  == 1 .. MaxFiles
Addrs  == 1 .. MaxAddrs
\* Negative errno values a failing kernel call can return (ret < 0, PTR_ERR).
Errnos == {-16, -12}

VARIABLES
    pc,                  \* position of the load/unload thread
    loads,               \* number of insmod so far
    nexit,               \* invocations of modbus_dev_exit since the last insmod
    ret,                 \* value returned by modbus_dev_init (once returned)
    firstAssignedDevNum, \* static dev_t: major of the region, 0 when unset
    my_dev,              \* static struct cdev*: "NULL" | "PTR"
    modbusClass,         \* static struct class*: "NULL" | "ERR" | "PTR"
    modbusDevice,        \* static struct device*: "NULL" | "ERR" | "PTR"
    chrdevs,             \* kernel: majors whose region is registered
    cdev_map,            \* kernel: the cdev: "none"|"allocated"|"added"|"freed"
    class_reg,           \* kernel: the class: "none"|"registered"|"freed"
    dev_node,            \* kernel: the device node: "none"|"exists"
    log,                 \* kernel calls of this load, in order
    fstate,              \* host: per struct file: "none"|"failed"|"open"|"released"
    private_data,        \* file->private_data: NULL or a heap block
    allocated,           \* heap blocks currently allocated
    tempPlaceholder,     \* contents of each heap block
    lastCall,            \* the last handler call and what it returned
    prevFailure          \* host: which step of the previous load failed, and
                         \* the value modbus_dev_init returned then

lifecycle == <<pc, loads, nexit, ret, firstAssignedDevNum, my_dev, modbusClass,
               modbusDevice, chrdevs, cdev_map, class_reg, dev_node, log,
               prevFailure>>
instances == <<fstate, private_data, allocated, tempPlaceholder, lastCall>>
vars == <<lifecycle, instances>>

NoCall == [op |-> "none", file |-> 0, a1 |-> 0, a2 |-> 0, ret |-> 0]
NoFailure == [step |-> "none", ret |-> 0]

Init ==
    /\ pc = "unloaded"
    /\ loads = 0
    /\ nexit = 0
    /\ ret = 0
    /\ firstAssignedDevNum = 0
    /\ my_dev = "NULL"
    /\ modbusClass = "NULL"
    /\ modbusDevice = "NULL"
    /\ chrdevs = {}
    /\ cdev_map = "none"
    /\ class_reg = "none"
    /\ dev_node = "none"
    /\ log = <<>>
    /\ fstate = [f \in Files |-> "none"]
    /\ private_data = [f \in Files |-> NULL]
    /\ allocated = {}
    /\ tempPlaceholder \in [Addrs -> 0 .. 1]
    /\ lastCall = NoCall
    /\ prevFailure = NoFailure

\* One entry of the call log: the kernel function and whether it acted on a
\* resource that was held (a release) or obtained one (an acquisition).  An
\* entry "modbus_dev_exit" marks where an invocation of modbus_dev_exit starts.
Call(name, held) == [call |-> name, held |-> held]

\* --------------------------------------------------------- kernel releases
\* Each takes the position the driver continues at.  A call on freed memory
\* is undefined: it may go unnoticed or oops; a call that dereferences NULL
\* or an ERR_PTR value oopses.

\* cdev_del(my_dev): drops the cdev from the map and frees it.
cdev_del(next) ==
    LET held == cdev_map \in {"allocated", "added"} IN
    /\ log' = Append(log, Call("cdev_del", held))
    /\ IF held
       THEN cdev_map' = "freed" /\ pc' = next
       ELSE cdev_map' = cdev_map /\ pc' \in {next, "oops"}
    /\ UNCHANGED <<chrdevs, class_reg, dev_node>>

\* device_destroy(modbusClass, firstAssignedDevNum): looks the device up in
\* the class and unregisters it; a NULL class or no such device is a no-op.
device_destroy(next) ==
    LET valid == modbusClass = "PTR" /\ class_reg = "registered"
        held  == valid /\ dev_node = "exists" IN
    /\ log' = Append(log, Call("device_destroy", held))
    /\ dev_node' = IF held THEN "none" ELSE dev_node
    /\ pc' \in CASE modbusClass = "NULL" \/ valid -> {next}
               [] modbusClass = "ERR"           -> {"oops"}
               [] OTHER                         -> {next, "oops"}
    /\ UNCHANGED <<chrdevs, cdev_map, class_reg>>

\* class_unregister(modbusClass): unregisters the class; for a class made by
\* class_create the last reference frees it.  It checks nothing.
class_unregister(next) ==
    LET held == modbusClass = "PTR" /\ class_reg = "registered" IN
    /\ log' = Append(log, Call("class_unregister", held))
    /\ class_reg' = IF held THEN "freed" ELSE class_reg
    /\ pc' \in CASE held                    -> {next}
               [] modbusClass # "PTR"       -> {"oops"}
               [] OTHER                     -> {next, "oops"}
    /\ UNCHANGED <<chrdevs, cdev_map, dev_node>>

\* class_destroy(modbusClass): returns at once on NULL or an ERR_PTR value,
\* otherwise class_unregister.
class_destroy(next) ==
    LET held == modbusClass = "PTR" /\ class_reg = "registered" IN
    /\ log' = Append(log, Call("class_destroy", held))
    /\ class_reg' = IF held THEN "freed" ELSE class_reg
    /\ pc' \in CASE held \/ modbusClass # "PTR" -> {next}
               [] OTHER                         -> {next, "oops"}
    /\ UNCHANGED <<chrdevs, cdev_map, dev_node>>

\* unregister_chrdev_region(firstAssignedDevNum, countOfMinorNum): removes
\* the region if it is registered, otherwise finds nothing to remove.
unregister_chrdev_region(next) ==
    LET held == firstAssignedDevNum \in chrdevs IN
    /\ log' = Append(log, Call("unregister_chrdev_region", held))
    /\ chrdevs' = chrdevs \ {firstAssignedDevNum}
    /\ pc' = next
    /\ UNCHANGED <<cdev_map, class_reg, dev_node>>

statics == <<firstAssignedDevNum, my_dev, modbusClass, modbusDevice>>
kernel == <<chrdevs, cdev_map, class_reg, dev_node>>

\* ------------------------------------------------------------ module load
\* The host loads the module image (statics get their initial values) and
\* calls modbus_dev_init.  What an earlier load left registered in the
\* kernel stays registered.
load(prev) ==
    /\ pc \in {"unloaded", "init_failed", "exited"}
    /\ loads < MaxLoads
    /\ loads' = loads + 1
    /\ nexit' = 0
    /\ ret' = 0
    /\ firstAssignedDevNum' = 0
    /\ my_dev' = "NULL"
    /\ modbusClass' = "NULL"
    /\ modbusDevice' = "NULL"
    /\ log' = <<>>
    /\ lastCall' = NoCall
    /\ prevFailure' = prev
    /\ pc' = "init_200"
    /\ UNCHANGED <<kernel, fstate, private_data, allocated, tempPlaceholder>>

\* The host keeps no record of what an earlier load returned.
insmod == load(prevFailure)

\* -------------------------------------------------------- modbus_dev_init
\* alloc_chrdev_region: picks a free dynamic major, or fails (ret < 0).
init_alloc_chrdev_region ==
    /\ pc = "init_200"
    /\ \/ \E m \in Majors \ chrdevs :
            /\ chrdevs' = chrdevs \cup {m}
            /\ firstAssignedDevNum' = m
            /\ log' = Append(log, Call("alloc_chrdev_region", TRUE))
            /\ pc' = "init_208"
            /\ ret' = ret
       \/ \E e \in Errnos :
            /\ log' = Append(log, Call("alloc_chrdev_region", FALSE))
            /\ ret' = e
            /\ pc' = "init_failed"
            /\ UNCHANGED <<chrdevs, firstAssignedDevNum>>
    /\ UNCHANGED <<prevFailure, loads, nexit, my_dev, modbusClass, modbusDevice, cdev_map,
                   class_reg, dev_node, instances>>

\* cdev_alloc + cdev_init: on failure the function returns -1 at once.
init_cdev_alloc ==
    /\ pc = "init_208"
    /\ \/ /\ my_dev' = "PTR"
          /\ cdev_map' = "allocated"
          /\ log' = Append(log, Call("cdev_alloc", TRUE))
          /\ pc' = "init_216"
          /\ ret' = ret
       \/ /\ my_dev' = "NULL"
          /\ cdev_map' = cdev_map
          /\ log' = Append(log, Call("cdev_alloc", FALSE))
          /\ ret' = -EPERM
          /\ pc' = "init_failed"
    /\ UNCHANGED <<prevFailure, loads, nexit, firstAssignedDevNum, modbusClass, modbusDevice,
                   chrdevs, class_reg, dev_node, instances>>

\* Mutant of init_cdev_add: a failed cdev_add is tried again.
init_cdev_add_retry ==
    /\ pc = "init_216"
    /\ \/ /\ cdev_map' = "added"
          /\ log' = Append(log, Call("cdev_add", TRUE))
          /\ pc' = "init_225"
          /\ ret' = ret
       \/ \E e \in Errnos :
            /\ cdev_map' = cdev_map
            /\ log' = Append(log, Call("cdev_add", FALSE))
            /\ ret' = e
            /\ pc' = "init_216"
    /\ UNCHANGED <<prevFailure, loads, nexit, statics, chrdevs, class_reg,
                   dev_node, instances>>

\* cdev_add: makes the driver live, or fails (ret < 0) and starts the rollback.
init_cdev_add ==
    /\ pc = "init_216"
    /\ \/ /\ cdev_map' = "added"
          /\ log' = Append(log, Call("cdev_add", TRUE))
          /\ pc' = "init_225"
          /\ ret' = ret
       \/ \E e \in Errnos :
            /\ cdev_map' = cdev_map
            /\ log' = Append(log, Call("cdev_add", FALSE))
            /\ ret' = e
            /\ pc' = "init_219"
    /\ UNCHANGED <<prevFailure, loads, nexit, statics, chrdevs, class_reg, dev_node, instances>>

init_219_cdev_del ==
    /\ pc = "init_219"
    /\ cdev_del("init_220")
    /\ UNCHANGED <<prevFailure, loads, nexit, ret, statics, instances>>

init_220_unregister_chrdev_region ==
    /\ pc = "init_220"
    /\ unregister_chrdev_region("init_failed")
    /\ UNCHANGED <<prevFailure, loads, nexit, ret, statics, instances>>

\* class_create: registers the class, or returns an ERR_PTR value.
init_class_create ==
    /\ pc = "init_225"
    /\ \/ /\ class_reg # "registered"
          /\ modbusClass' = "PTR"
          /\ class_reg' = "registered"
          /\ log' = Append(log, Call("class_create", TRUE))
          /\ pc' = "init_234"
          /\ ret' = ret
       \/ \E e \in Errnos :
            /\ modbusClass' = "ERR"
            /\ class_reg' = class_reg
            /\ log' = Append(log, Call("class_create", FALSE))
            /\ ret' = e
            /\ pc' = "init_228"
    /\ UNCHANGED <<prevFailure, loads, nexit, firstAssignedDevNum, my_dev, modbusDevice,
                   chrdevs, cdev_map, dev_node, instances>>

init_228_cdev_del ==
    /\ pc = "init_228"
    /\ cdev_del("init_229")
    /\ UNCHANGED <<prevFailure, loads, nexit, ret, statics, instances>>

init_229_unregister_chrdev_region ==
    /\ pc = "init_229"
    /\ unregister_chrdev_region("init_failed")
    /\ UNCHANGED <<prevFailure, loads, nexit, ret, statics, instances>>

\* device_create: creates the node and, on success, the function returns 0.
init_device_create ==
    /\ pc = "init_234"
    /\ \/ /\ modbusDevice' = "PTR"
          /\ dev_node' = "exists"
          /\ log' = Append(log, Call("device_create", TRUE))
          /\ ret' = 0
          /\ pc' = "loaded"
       \/ \E e \in Errnos :
            /\ modbusDevice' = "ERR"
            /\ dev_node' = dev_node
            /\ log' = Append(log, Call("device_create", FALSE))
            /\ ret' = e
            /\ pc' = "init_238"
    /\ UNCHANGED <<prevFailure, loads, nexit, firstAssignedDevNum, my_dev, modbusClass,
                   chrdevs, cdev_map, class_reg, instances>>

init_238_class_destroy ==
    /\ pc = "init_238"
    /\ class_destroy("init_239")
    /\ UNCHANGED <<prevFailure, loads, nexit, ret, statics, instances>>

init_239_cdev_del ==
    /\ pc = "init_239"
    /\ cdev_del("init_240")
    /\ UNCHANGED <<prevFailure, loads, nexit, ret, statics, instances>>

init_240_unregister_chrdev_region ==
    /\ pc = "init_240"
    /\ unregister_chrdev_region("init_failed")
    /\ UNCHANGED <<prevFailure, loads, nexit, ret, statics, instances>>

modbus_dev_init ==
    \/ init_alloc_chrdev_region
    \/ init_cdev_alloc
    \/ init_cdev_add
    \/ init_219_cdev_del
    \/ init_220_unregister_chrdev_region
    \/ init_class_create
    \/ init_228_cdev_del
    \/ init_229_unregister_chrdev_region
    \/ init_device_create
    \/ init_238_class_destroy
    \/ init_239_cdev_del
    \/ init_240_unregister_chrdev_region

\* ---------------------------------------------------------- module unload
\* The host unloads the module only after a successful init and with no
\* struct file left (file_operations.owner holds a module reference).
rmmod ==
    /\ pc = "loaded"
    /\ \A f \in Files : fstate[f] = "none"
    /\ nexit' = nexit + 1
    /\ pc' = "exit_253"
    /\ log' = Append(log, Call("modbus_dev_exit", TRUE))
    /\ lastCall' = NoCall
    /\ UNCHANGED <<prevFailure, loads, ret, statics, kernel, fstate, private_data,
                   allocated, tempPlaceholder>>

\* -------------------------------------------------------- modbus_dev_exit
\* dev_info(modbusDevice, ...): reads the device structure.
exit_dev_info ==
    /\ pc = "exit_253"
    /\ pc' \in CASE modbusDevice = "NULL"                     -> {"exit_256"}
               [] modbusDevice = "ERR"                        -> {"oops"}
               [] modbusDevice = "PTR" /\ dev_node = "exists" -> {"exit_256"}
               [] OTHER                            -> {"exit_256", "oops"}
    /\ UNCHANGED <<prevFailure, loads, nexit, ret, statics, kernel, log, instances>>

\* if(my_dev) cdev_del(my_dev);
exit_cdev_del ==
    /\ pc = "exit_256"
    /\ IF my_dev # "NULL"
       THEN cdev_del("exit_259")
       ELSE pc' = "exit_259" /\ UNCHANGED <<kernel, log>>
    /\ UNCHANGED <<prevFailure, loads, nexit, ret, statics, instances>>

exit_device_destroy ==
    /\ pc = "exit_259"
    /\ device_destroy("exit_262")
    /\ UNCHANGED <<prevFailure, loads, nexit, ret, statics, instances>>

exit_class_unregister ==
    /\ pc = "exit_262"
    /\ class_unregister("exit_265")
    /\ UNCHANGED <<prevFailure, loads, nexit, ret, statics, instances>>

exit_class_destroy ==
    /\ pc = "exit_265"
    /\ class_destroy("exit_268")
    /\ UNCHANGED <<prevFailure, loads, nexit, ret, statics, instances>>

exit_unregister_chrdev_region ==
    /\ pc = "exit_268"
    /\ unregister_chrdev_region("exited")
    /\ UNCHANGED <<prevFailure, loads, nexit, ret, statics, instances>>

modbus_dev_exit ==
    \/ exit_dev_info
    \/ exit_cdev_del
    \/ exit_device_destroy
    \/ exit_class_unregister
    \/ exit_class_destroy
    \/ exit_unregister_chrdev_region

\* A test harness, unlike the host, may also run modbus_dev_exit a second
\* time, or after modbus_dev_init has failed.
exit_again ==
    /\ pc = "exited"
    /\ nexit < MaxExits
    /\ nexit' = nexit + 1
    /\ pc' = "exit_253"
    /\ log' = Append(log, Call("modbus_dev_exit", TRUE))
    /\ UNCHANGED <<prevFailure, loads, ret, statics, kernel, instances>>

exit_after_failed_init ==
    /\ pc = "init_failed"
    /\ nexit < MaxExits
    /\ nexit' = nexit + 1
    /\ pc' = "exit_253"
    /\ log' = Append(log, Call("modbus_dev_exit", TRUE))
    /\ UNCHANGED <<prevFailure, loads, ret, statics, kernel, instances>>

\* ------------------------------------------------- per-instance handlers
Lens == 0 .. 1      \* lbuf values a caller passes to read and write
Cmds == 0 .. 1      \* ioctl command codes
Args == 0 .. 1      \* ioctl arguments

\* Mutant of kzalloc: an allocator that may hand out a block already in use.
kzalloc_in_use == Addrs

\* The blocks kzalloc may return: any block that is not allocated.
kzalloc == Addrs \ allocated

\* Mutant of kfree: the block is not given back.
kfree_leak(a) == allocated

\* kfree(a): the heap without block a.
kfree(a) == allocated \ {a}

\* Mutant of CheckPrivateData: the check is left out.
CheckPrivateData_skipped(f) == 0

\* The check every handler but open starts with:
\* if(!myPrivateData) return -ENOMEM;
CheckPrivateData(f) == IF private_data[f] = NULL THEN -ENOMEM ELSE 0

Returned(op, f, a1, a2, r) ==
    [op |-> op, file |-> f, a1 |-> a1, a2 |-> a2, ret |-> r]

\* Mutant of modbus_dev_open: kmalloc in place of kzalloc, the block keeps
\* whatever it held.
modbus_dev_open_kmalloc(f) ==
    \/ \E a \in kzalloc :
         /\ allocated' = allocated \cup {a}
         /\ tempPlaceholder' = tempPlaceholder
         /\ private_data' = [private_data EXCEPT ![f] = a]
         /\ lastCall' = Returned("open", f, 0, 0, 0)
    \/ /\ lastCall' = Returned("open", f, 0, 0, -ENOMEM)
       /\ UNCHANGED <<allocated, tempPlaceholder, private_data>>

\* modbus_dev_open: allocate zeroed state and attach it, or -ENOMEM.
modbus_dev_open(f) ==
    \/ \E a \in kzalloc :
         /\ allocated' = allocated \cup {a}
         /\ tempPlaceholder' = [tempPlaceholder EXCEPT ![a] = 0]
         /\ private_data' = [private_data EXCEPT ![f] = a]
         /\ lastCall' = Returned("open", f, 0, 0, 0)
    \/ /\ lastCall' = Returned("open", f, 0, 0, -ENOMEM)
       /\ UNCHANGED <<allocated, tempPlaceholder, private_data>>

\* modbus_dev_close: free the attached state; the pointer stays in the file.
modbus_dev_close(f) ==
    LET r == CheckPrivateData(f) IN
    /\ allocated' = IF r = 0 THEN kfree(private_data[f]) ELSE allocated
    /\ lastCall' = Returned("close", f, 0, 0, r)
    /\ UNCHANGED <<private_data, tempPlaceholder>>

modbus_dev_ioctl(f, cmd, arg) ==
    /\ lastCall' = Returned("ioctl", f, cmd, arg, CheckPrivateData(f))
    /\ UNCHANGED <<private_data, allocated, tempPlaceholder>>

\* Mutant of modbus_dev_read: reports the whole buffer as read.
modbus_dev_read_full(f, lbuf) ==
    /\ lastCall' = Returned("read", f, lbuf, 0,
                            IF private_data[f] = NULL THEN -ENOMEM ELSE lbuf)
    /\ UNCHANGED <<private_data, allocated, tempPlaceholder>>

modbus_dev_read(f, lbuf) ==
    /\ lastCall' = Returned("read", f, lbuf, 0, CheckPrivateData(f))
    /\ UNCHANGED <<private_data, allocated, tempPlaceholder>>

modbus_dev_write(f, lbuf) ==
    /\ lastCall' = Returned("write", f, lbuf, 0, CheckPrivateData(f))
    /\ UNCHANGED <<private_data, allocated, tempPlaceholder>>

\* ------------------------------------------------------------------- host
\* The host makes a struct file (private_data NULL) for each open system
\* call on the node and calls .open; it calls the other handlers only on a
\* file whose open succeeded, .release once, and then frees the struct file.
sys_open(f) ==
    /\ pc = "loaded"
    /\ fstate[f] = "none"
    /\ modbus_dev_open(f)
    /\ fstate' = [fstate EXCEPT ![f] = IF lastCall'.ret = 0 THEN "open" ELSE "failed"]
    /\ UNCHANGED lifecycle

sys_close(f) ==
    /\ fstate[f] = "open"
    /\ modbus_dev_close(f)
    /\ fstate' = [fstate EXCEPT ![f] = "released"]
    /\ UNCHANGED lifecycle

sys_ioctl(f) ==
    /\ fstate[f] = "open"
    /\ \E cmd \in Cmds, arg \in Args : modbus_dev_ioctl(f, cmd, arg)
    /\ UNCHANGED <<lifecycle, fstate>>

sys_read(f) ==
    /\ fstate[f] = "open"
    /\ \E lbuf \in Lens : modbus_dev_read(f, lbuf)
    /\ UNCHANGED <<lifecycle, fstate>>

sys_write(f) ==
    /\ fstate[f] = "open"
    /\ \E lbuf \in Lens : modbus_dev_write(f, lbuf)
    /\ UNCHANGED <<lifecycle, fstate>>

\* The struct file is freed after a failed open or after .release.
fput(f) ==
    /\ fstate[f] \in {"failed", "released"}
    /\ fstate' = [fstate EXCEPT ![f] = "none"]
    /\ private_data' = [private_data EXCEPT ![f] = NULL]
    /\ UNCHANGED <<lifecycle, allocated, tempPlaceholder, lastCall>>

\* Fault injection: a harness calls a handler on a file that has no state
\* attached (its open failed).
inject_close(f) ==
    /\ fstate[f] = "failed"
    /\ modbus_dev_close(f)
    /\ UNCHANGED <<lifecycle, fstate>>

inject_ioctl(f) ==
    /\ fstate[f] = "failed"
    /\ \E cmd \in Cmds, arg \in Args : modbus_dev_ioctl(f, cmd, arg)
    /\ UNCHANGED <<lifecycle, fstate>>

inject_read(f) ==
    /\ fstate[f] = "failed"
    /\ \E lbuf \in Lens : modbus_dev_read(f, lbuf)
    /\ UNCHANGED <<lifecycle, fstate>>

inject_write(f) ==
    /\ fstate[f] = "failed"
    /\ \E lbuf \in Lens : modbus_dev_write(f, lbuf)
    /\ UNCHANGED <<lifecycle, fstate>>

Dispatch ==
    \E f \in Files :
        \/ sys_open(f)
        \/ sys_close(f)
        \/ sys_ioctl(f)
        \/ sys_read(f)
        \/ sys_write(f)
        \/ fput(f)

Harness ==
    \/ exit_again
    \/ exit_after_failed_init
    \/ \E f \in Files :
        \/ inject_close(f)
        \/ inject_ioctl(f)
        \/ inject_read(f)
        \/ inject_write(f)

Lifecycle ==
    \/ insmod
    \/ modbus_dev_init
    \/ rmmod
    \/ modbus_dev_exit

Next == Lifecycle \/ Dispatch
Spec == Init /\ [][Next]_vars

\* The same program driven by a test harness.
NextHarness == Next \/ Harness
SpecHarness == Init /\ [][NextHarness]_vars

\* ================================================================== claims
Range(q) == {q[i] : i \in DOMAIN q}

ReleaseCalls == {"cdev_del", "device_destroy", "class_unregister",
                 "class_destroy", "unregister_chrdev_region"}

\* The resource a release call is about.
Resource(call) ==
    CASE call = "device_destroy"           -> "node"
      [] call = "class_unregister"         -> "class"
      [] call = "class_destroy"            -> "class"
      [] call = "cdev_del"                 -> "cdev"
      [] call = "unregister_chrdev_region" -> "region"
      [] OTHER                             -> "none"

\* The resources actually released during this load, in order.
Released ==
    LET rel == SelectSeq(log, LAMBDA e : e.call \in ReleaseCalls /\ e.held)
    IN  [i \in DOMAIN rel |-> Resource(rel[i].call)]

\* How many entries of the log are calls of the given function.
Calls(name) == Cardinality({i \in DOMAIN log : log[i].call = name})

\* The invocation of modbus_dev_exit (1, 2, ...) that log entry i belongs
\* to; 0 for an entry made by modbus_dev_init.
ExitNo(i) == Cardinality({j \in 1 .. i : log[j].call = "modbus_dev_exit"})

InitSucceeded  == Call("device_create", TRUE) \in Range(log)
RegionAcquired == Call("alloc_chrdev_region", TRUE) \in Range(log)
RegionHeld == firstAssignedDevNum \in chrdevs
CdevHeld   == cdev_map \in {"allocated", "added"}
ClassHeld  == class_reg = "registered"
NodeHeld   == dev_node = "exists"

\* C1: whenever modbus_dev_init has returned a failure value, none of the
\* resources it acquired is still held: not the device-number region, not
\* the cdev, not the class, not the device node.
C1_RollbackComplete ==
    (pc = "init_failed" /\ nexit = 0) =>
        ~RegionHeld /\ ~CdevHeld /\ ~ClassHeld /\ ~NodeHeld

\* C2: when modbus_dev_exit has returned after a successful modbus_dev_init,
\* the resources were released in the order node, class, cdev, region.
C2_MirrorTeardown ==
    (pc = "exited" /\ nexit = 1 /\ InitSucceeded) =>
        Released = <<"node", "class", "cdev", "region">>

\* C3: in every state, if the device node exists then the cdev is added.
C3_NodeImpliesDispatch == NodeHeld => cdev_map = "added"

\* C4: the device-number region is released exactly once per acquisition
\* (never more often, and exactly once by the time modbus_dev_init has
\* failed or modbus_dev_exit has returned), and whenever it has been
\* released neither the class, the node nor the cdev is held.
C4_IdentityReleasedOnce ==
    LET acquired == IF RegionAcquired THEN 1 ELSE 0
        released == Calls("unregister_chrdev_region") IN
    /\ released <= acquired
    /\ pc \in {"init_failed", "exited"} => released = acquired
    /\ (RegionAcquired /\ ~RegionHeld) => ~ClassHeld /\ ~NodeHeld /\ ~CdevHeld

\* C5: a second invocation of modbus_dev_exit after a successful
\* modbus_dev_init faults nowhere and makes no release call on a resource
\* that is not held.
C5_DoubleExitNoFault ==
    InitSucceeded =>
        /\ nexit = 2 => pc # "oops"
        /\ \A i \in DOMAIN log :
              (ExitNo(i) = 2 /\ log[i].call \in ReleaseCalls) => log[i].held

\* C6: modbus_dev_exit run after a failed modbus_dev_init faults nowhere and
\* makes a release call only on a resource that is held.
C6_PartialExitGuarded ==
    ~InitSucceeded =>
        /\ nexit >= 1 => pc # "oops"
        /\ \A i \in DOMAIN log :
              (ExitNo(i) >= 1 /\ log[i].call \in ReleaseCalls) => log[i].held

\* A step is a call of a handler on file f when it records a new lastCall
\* for f.
HandlerStep(f) == lastCall' # lastCall /\ lastCall'.file = f

Open(f) == fstate[f] = "open"

\* C7: any two open descriptors have distinct attached states, each of them
\* allocated (so N open descriptors hold N allocations), and a handler call
\* on descriptor A leaves the state attached to another open descriptor B
\* attached, allocated and with the same contents.
C7_InstanceIndependence ==
    /\ [](\A f, g \in Files :
            (Open(f) /\ Open(g) /\ f # g) =>
                /\ private_data[f] # private_data[g]
                /\ private_data[f] \in allocated)
    /\ [](Cardinality({private_data[f] : f \in {g \in Files : Open(g)}})
            = Cardinality({g \in Files : Open(g)}))
    /\ [][\A A, B \in Files :
            (HandlerStep(A) /\ A # B /\ Open(B)) =>
                /\ private_data'[B] = private_data[B]
                /\ private_data[B] \in allocated'
                /\ tempPlaceholder'[private_data[B]]
                     = tempPlaceholder[private_data[B]]]_vars

\* Two descriptors are open at once, the second just opened.
C7_Witness ==
    /\ \A f \in Files : Open(f)
    /\ lastCall.op = "open" /\ lastCall.ret = 0

\* C8: a call of modbus_dev_close on a descriptor with attached state
\* returns 0 and frees exactly that state; every other open descriptor stays
\* open with its state attached and allocated.
C8_CloseSafety ==
    [][\A f \in Files :
         (HandlerStep(f) /\ lastCall'.op = "close" /\ private_data[f] # NULL) =>
            /\ lastCall'.ret = 0
            /\ allocated' = allocated \ {private_data[f]}
            /\ private_data[f] \in allocated
            /\ \A g \in Files \ {f} :
                 Open(g) => /\ fstate'[g] = "open"
                            /\ private_data'[g] = private_data[g]
                            /\ private_data[g] \in allocated']_vars

\* A descriptor has just been closed while another one is still open.
C8_Witness ==
    /\ lastCall.op = "close" /\ lastCall.ret = 0
    /\ fstate[lastCall.file] = "released"
    /\ \E g \in Files : Open(g)

\* C9: after modbus_dev_close has returned success on a descriptor, that
\* descriptor's private_data is NULL.
C9_DetachedAfterClose ==
    \A f \in Files : fstate[f] = "released" => private_data[f] = NULL

\* C10: a call of modbus_dev_close, modbus_dev_ioctl, modbus_dev_read or
\* modbus_dev_write on a descriptor whose private_data is NULL returns
\* -ENOMEM and changes nothing else.
C10_DefensiveCheck ==
    [][\A f \in Files :
         (/\ HandlerStep(f)
          /\ lastCall'.op \in {"close", "ioctl", "read", "write"}
          /\ private_data[f] = NULL) =>
            /\ lastCall'.ret = -ENOMEM
            /\ UNCHANGED <<lifecycle, fstate, private_data, allocated,
                           tempPlaceholder>>]_vars

\* A handler has just been called on a descriptor without state, while
\* another descriptor holds state that the call could have touched.
C10_Witness ==
    /\ lastCall.op \in {"close", "ioctl", "read", "write"}
    /\ lastCall.ret = -ENOMEM
    /\ private_data[lastCall.file] = NULL
    /\ \E g \in Files : Open(g)

\* C11: a call of modbus_dev_open returns 0 or -ENOMEM.  When it returns
\* -ENOMEM nothing is attached and nothing else changes.  When it returns 0
\* the descriptor holds a block that was not allocated before, that block is
\* now allocated and zeroed, and the lifecycle resources, the other
\* descriptors and the other blocks are unchanged.
C11_OpenContract ==
    [][\A f \in Files :
         (HandlerStep(f) /\ lastCall'.op = "open") =>
            /\ UNCHANGED lifecycle
            /\ \A g \in Files \ {f} :
                 /\ private_data'[g] = private_data[g]
                 /\ fstate'[g] = fstate[g]
            /\ IF lastCall'.ret = 0
               THEN /\ private_data'[f] \in Addrs \ allocated
                    /\ allocated' = allocated \cup {private_data'[f]}
                    /\ tempPlaceholder'[private_data'[f]] = 0
                    /\ \A a \in Addrs \ {private_data'[f]} :
                         tempPlaceholder'[a] = tempPlaceholder[a]
               ELSE /\ lastCall'.ret = -ENOMEM
                    /\ private_data'[f] = NULL
                    /\ UNCHANGED <<allocated, tempPlaceholder>>]_vars

\* An open has just failed while another descriptor holds state.
C11_Witness ==
    /\ lastCall.op = "open" /\ lastCall.ret = -ENOMEM
    /\ private_data[lastCall.file] = NULL
    /\ \E g \in Files : Open(g)

\* The acquisition calls of modbus_dev_init, in program order.
AcquireCalls == <<"alloc_chrdev_region", "cdev_alloc", "cdev_add",
                  "class_create", "device_create">>

\* The initialization step an acquisition call belongs to.
Step(call) ==
    CASE call = "alloc_chrdev_region" -> "identity"
      [] call = "cdev_alloc"          -> "dispatch"
      [] call = "cdev_add"            -> "dispatch"
      [] call = "class_create"        -> "class"
      [] call = "device_create"       -> "node"
      [] OTHER                        -> "none"

\* The step at which this load's modbus_dev_init failed, "none" if none did.
FailedStep ==
    LET bad == {i \in DOMAIN log :
                  log[i].call \in Range(AcquireCalls) /\ ~log[i].held}
    IN  IF bad = {} THEN "none" ELSE Step(log[CHOOSE i \in bad : TRUE].call)

\* A host that notes, when it loads the module again, which step failed in
\* the previous load and what modbus_dev_init returned.
insmod_reporting ==
    load(IF pc = "init_failed"
         THEN [step |-> FailedStep, ret |-> ret]
         ELSE NoFailure)

NextReload ==
    \/ insmod_reporting
    \/ modbus_dev_init
    \/ rmmod
    \/ modbus_dev_exit
    \/ Dispatch
SpecReload == Init /\ [][NextReload]_vars

\* C12: the value modbus_dev_init returns on failure tells which step
\* failed: two failed loads that return the same value failed at the same
\* step.
C12_DistinctFailureSignals ==
    (pc = "init_failed" /\ prevFailure.step # "none" /\ prevFailure.ret = ret)
        => prevFailure.step = FailedStep

\* C13: in a run of init, open, read, close, exit under the host's rules a
\* read on the opened descriptor returns 0, the close returns 0, and once
\* the run of modbus_dev_exit has ended the node does not exist and neither
\* the region, the cdev, the class nor any per-instance state is held.
C13_ScenarioA ==
    /\ (lastCall.op = "read" /\ Open(lastCall.file)) => lastCall.ret = 0
    /\ (lastCall.op = "close" /\ fstate[lastCall.file] = "released")
          => lastCall.ret = 0
    /\ (InitSucceeded /\ nexit = 1 /\ pc \in {"exited", "oops"}) =>
          /\ ~NodeHeld /\ ~RegionHeld /\ ~CdevHeld /\ ~ClassHeld
          /\ allocated = {}

\* The resource an acquisition call obtains; cdev_add obtains no new one.
Obtained(call) ==
    CASE call = "alloc_chrdev_region" -> "region"
      [] call = "cdev_alloc"          -> "cdev"
      [] call = "class_create"        -> "class"
      [] call = "device_create"       -> "node"
      [] OTHER                        -> "none"

\* The resources acquired during this load, in order.
Acquired ==
    LET acq == SelectSeq(log, LAMBDA e : Obtained(e.call) # "none" /\ e.held)
    IN  [i \in DOMAIN acq |-> Obtained(acq[i].call)]

Reverse(q) == [i \in DOMAIN q |-> q[Len(q) + 1 - i]]

\* C14: when modbus_dev_init has returned a failure value, the resources it
\* had acquired have all been released, in the reverse of the order in which
\* they were acquired.
C14_RollbackOrder ==
    (pc = "init_failed" /\ nexit = 0) => Released = Reverse(Acquired)

\* C15: when modbus_dev_init has returned, it returned 0 exactly if all four
\* acquisitions succeeded; after a return of 0 the region, the cdev, the
\* class and the node are all held; and after any return either all four
\* are held or none is.
C15_AllOrNothing ==
    (pc \in {"loaded", "init_failed"} /\ nexit = 0) =>
        /\ ret = 0 <=> Acquired = <<"region", "cdev", "class", "node">>
        /\ pc = "loaded" <=> ret = 0
        /\ ret = 0 => RegionHeld /\ cdev_map = "added" /\ ClassHeld /\ NodeHeld
        /\ \/ RegionHeld /\ CdevHeld /\ ClassHeld /\ NodeHeld
           \/ ~RegionHeld /\ ~CdevHeld /\ ~ClassHeld /\ ~NodeHeld

\* C16: a call of modbus_dev_read, modbus_dev_write or modbus_dev_ioctl on a
\* descriptor with state attached returns 0, whatever length, command or
\* argument it is given, and changes neither that descriptor's state, nor
\* any other descriptor's, nor the heap, nor the lifecycle resources.
C16_StubHandlers ==
    [][\A f \in Files :
         (/\ HandlerStep(f)
          /\ lastCall'.op \in {"read", "write", "ioctl"}
          /\ private_data[f] # NULL) =>
            /\ lastCall'.ret = 0
            /\ UNCHANGED <<lifecycle, fstate, private_data, allocated,
                           tempPlaceholder>>]_vars

\* A read with a non-empty buffer has returned on a descriptor with state
\* while the other descriptors are open too.
C16_Witness ==
    /\ lastCall.op = "read" /\ lastCall.a1 = 1 /\ lastCall.ret = 0
    /\ \A g \in Files : Open(g)

\* C17: within one invocation of modbus_dev_init the acquisition calls made
\* are an initial part of alloc_chrdev_region, cdev_alloc, cdev_add,
\* class_create, device_create, each made at most once; a call that failed
\* is the last one made; after a failure the function is never again at an
\* acquisition step nor returns success; and when it has returned failure
\* it has returned one negative value.
C17_NoRetry ==
    LET acq == SelectSeq(log, LAMBDA e : e.call \in Range(AcquireCalls)) IN
    /\ Len(acq) <= Len(AcquireCalls)
    /\ \A i \in DOMAIN acq :
          /\ i <= Len(AcquireCalls) => acq[i].call = AcquireCalls[i]
          /\ ~acq[i].held => i = Len(acq)
    /\ FailedStep # "none" =>
          pc \notin {"init_200", "init_208", "init_216", "init_225",
                     "init_234", "loaded"}
    /\ (pc = "init_failed" /\ nexit = 0) => (ret < 0 /\ FailedStep # "none")

\* modbus_dev_init has returned after class_create failed and the rollback
\* ran.
C17_Witness ==
    /\ pc = "init_failed"
    /\ FailedStep = "class"
    /\ Calls("device_create") = 0

\* How many release calls of this load were made on the given resource.
ReleaseCallsOn(res) ==
    Cardinality({i \in DOMAIN log :
                   log[i].call \in ReleaseCalls /\ Resource(log[i].call) = res})

\* C18: during one run of modbus_dev_exit after a successful modbus_dev_init
\* each of the node, the class, the cdev and the region is the target of at
\* most one release call.
C18_SingleRelease ==
    (InitSucceeded /\ nexit = 1) =>
        \A res \in {"node", "class", "cdev", "region"} :
            ReleaseCallsOn(res) <= 1

\* C19: under the host's rules (one close per opened descriptor) every
\* allocated block is attached to exactly one open descriptor, a close frees
\* a block that is allocated at that moment (so no block is freed twice),
\* and when no descriptor is open no block is allocated.
C19_NoLeakNoDoubleFree ==
    /\ [](\A a \in allocated :
            Cardinality({f \in Files : Open(f) /\ private_data[f] = a}) = 1)
    /\ []((\A f \in Files : ~Open(f)) => allocated = {})
    /\ [][\A f \in Files :
            (HandlerStep(f) /\ lastCall'.op = "close" /\ lastCall'.ret = 0) =>
                /\ private_data[f] \in allocated
                /\ private_data[f] \notin allocated']_vars

\* Every descriptor has been opened and closed again; the last close has
\* just returned.
C19_Witness ==
    /\ lastCall.op = "close" /\ lastCall.ret = 0
    /\ \A f \in Files : fstate[f] = "released"
    /\ allocated = {}
=============================================================================
